---- MODULE Spec2Model ----
(***************************************************************************)
(* Model of tensorforce: the experience memory                             *)
(* (tensorforce/core/memories/prioritized_replay.py, specification Spec)   *)
(* the agent (tensorforce/agents/agent.py, specification SpecAgent), the   *)
(* DQFD agent (tensorforce/agents/dqfd_agent.py, specification SpecDQFD),  *)
(* the Q-model (tensorforce/models/q_model.py, specification SpecQ) and    *)
(* the policy gradient model (tensorforce/models/policy_gradient_model.py, *)
(* specification SpecPG).                                                  *)
(* Each specification constructs one object and leaves the variables of    *)
(* the other objects at the values they have when nothing is constructed.  *)
(*                                                                         *)
(* A PrioritizedReplay store is a Python list `observations` of            *)
(* (priority, observation) pairs, a boundary `none_priority_index`, the    *)
(* index list `batch_indices` of the outstanding batch and one pending     *)
(* `last_observation`.  Indices are 0-based as in the source; the element  *)
(* at Python index i of a list l is l[i + 1] here.                         *)
(***************************************************************************)
EXTENDS Integers, Sequences, FiniteSets, TLC

\* ---- bounds of the model ------------------------------------------------
MaxCapacity == 3
MaxAdds == 4
MaxLoss == 2
MaxWeight == 2
MaxBatch == 3
\* Agent: action components, values of a discrete action, internal states the model
\* returns, act calls, reset calls, raw states, exploration values
MaxActions == 2
NumActions == 2
MaxInternal == 1
MaxTimestep == 2
MaxEpisode == 1
MaxState == 0
MaxNoise == 1
\* DQFDAgent: demo_sampling_ratio in steps of 1 / RatioSteps, batch_size, first_update,
\* update_frequency, repeat_update
RatioSteps == 4
MaxBatchSize == 3
MaxFirstUpdate == 1
MaxFrequency == 2
MaxRepeat == 2
\* QModel: variables of a network, values of a variable, update_target_weight,
\* clip_loss and clip_gradients, rows of a batch, TD error of a row
NumVariables == 2
MaxValue == 1
MaxTargetWeight == 1
MaxClip == 3
MaxInstances == 1
MaxDelta == 2
\* PolicyGradientModel: discount, gae_lambda, rows of a batch, reward of a row,
\* value the baseline predicts for a state
MaxDiscount == 1
MaxLambda == 1
MaxSteps == 2
MaxReward == 1
MaxStateValue == 1
\* state components with a baseline each, update calls
NumStates == 2
MaxFits == 2

\* QModel.update_feed_dict: rows of a batch, and the largest value in a column
MaxRows == 2
MaxFeedValue == 1

\* ALE: the life counts of the emulator, the size of loss_of_life_reward and the
\* rewards of the emulator
MaxLives == 2
MaxLifeReward == 1
MaxAleReward == 1

\* DQNModel: the internal state inputs of a network and the calls of get_action
MaxInternalStates == 3
MaxTotalStates == 4

\* ---- Python values --------------------------------------------------------
\* None, for a priority (priorities are >= 0) and for last_observation
None == -1
\* batch_indices = None (a list of indices never holds a negative number)
NoBatch == << None >>
\* a local variable that no statement has assigned yet
Unbound == << >>

\* util.epsilon is 1 / EpsilonInverse
EpsilonInverse == 1000000

VARIABLES
    capacity,               \* Memory.capacity
    prioritization_weight,  \* self.prioritization_weight
    internals_config,       \* TRUE once self.internals_config is not None
    observations,           \* self.observations
    none_priority_index,    \* self.none_priority_index
    batch_indices,          \* self.batch_indices
    last_observation,       \* self.last_observation (number of the call that made it)
    pc,                     \* "idle", or "get_batch" while get_batch's loop runs
    batch_size,             \* get_batch: argument
    not_sampled_index,      \* get_batch: local
    sum_priorities,         \* get_batch: local
    observation,            \* get_batch: local, the observation last bound
    rows,                   \* get_batch: the observations packed into rows 0..n-1
    calls,                  \* number of add_observation calls made so far
    outcome,                \* << operation, "ok" or the exception raised, branch taken >>
                            \* of the last call
    sampled_since_update,   \* TRUE when get_batch was called after construction or
                            \* after the last update_batch that completed
    \* -- Agent --
    agent_class,            \* the class of the constructed agent, "" when there is none
    actions_config,         \* the names of the action components, 1..n
    unique_action,          \* self.unique_action
    continuous_actions,     \* self.continuous_actions, as a set of names
    exploration,            \* the names self.exploration has an entry for
    preprocessing,          \* TRUE when the state has a preprocessor
    processed,              \* states the preprocessor has processed since its reset
    episode,                \* self.episode
    timestep,               \* self.timestep
    current_internal,       \* self.current_internal
    next_internal,          \* self.next_internal
    current_state,          \* self.current_state
    current_action,         \* self.current_action
    model_internal,         \* the internal state the model returned last
    model_call,             \* the arguments and the action of the last model.get_action
    evaluated,              \* the names whose exploration the last act evaluated
    agent_outcome,          \* << operation, "ok" or the exception raised, value returned >>
    \* -- DQFDAgent --
    demo_sampling_ratio,    \* config.demo_sampling_ratio, << numerator, denominator >>
    config_batch_size,      \* config.batch_size
    demo_batch_size,        \* self.demo_batch_size
    first_update,           \* self.first_update
    update_frequency,       \* self.update_frequency
    repeat_update,          \* self.repeat_update
    observe_trace,          \* the calls the last observe made on memories and model
    \* -- QModel --
    variables,              \* the value of each variable of the graph, by << scope, n >>
    training_variables,     \* self.training_variables, a list of variable names
    target_variables,       \* self.target_variables
    update_target_weight,   \* config.update_target_weight
    clip_loss,              \* config.clip_loss
    clip_gradients,         \* config.clip_gradients
    delta,                  \* line 91: the TD error of each row of the last update
    huber_loss,             \* twice the loss of each row that q_loss averages
    q_loss,                 \* self.q_loss, << numerator, denominator >>
    q_outcome,              \* the last operation on the model
    \* -- PolicyGradientModel --
    discount,               \* self.discount
    gae_lambda,             \* self.gae_lambda
    baseline,               \* TRUE when self.baseline has a baseline for the state
    gae_rewards,            \* self.gae_rewards
    batch_rewards,          \* reward_estimation: argument rewards
    batch_terminals,        \* reward_estimation: argument terminals
    state_values,           \* reward_estimation: local
    td_residuals,           \* reward_estimation: local
    estimated_rewards,      \* reward_estimation: the rewards returned
    discounted_rewards,     \* reward_estimation: the discounted_rewards returned
    normalize_rewards,      \* self.normalize_rewards
    normalization,          \* reward_estimation: << >>, or what the returned rewards
                            \* are to be divided by, see Normalization
    fitted,                 \* the number of batches the baselines have been fit on
    pg_trace,               \* the calls the last operation made on baselines and parent
    pg_outcome,             \* the last operation on the model
    \* -- QModel.update_feed_dict --
    feed_batch,             \* update_feed_dict: argument batch, a dict of columns
    feed_dict,              \* update_feed_dict: the dict returned, by placeholder
    feed_outcome,           \* the last operation
    \* -- ALE --
    rom_lives,              \* the life count the emulator starts a game with
    ale_lives,              \* self.ale.lives()
    ale_game_over,          \* self.ale.game_over()
    ale_reward,             \* what the last self.ale.act returned
    loss_of_life_termination,\* self.loss_of_life_termination
    loss_of_life_reward,    \* self.loss_of_life_reward
    cur_lives,              \* self.cur_lives
    life_lost,              \* self.life_lost
    ale_outcome,            \* the last call and what it returned: << call, rew, terminal >>
    \* -- DQNModel --
    internal_state_inputs,  \* how many internal state inputs each of the two networks has
    training_internal_states,\* self.training_internal_states
    target_internal_states, \* self.target_internal_states
    total_states,           \* self.total_states
    dqn_outcome             \* the last call and what it returned or raised

\* the PrioritizedReplay store
replay == << capacity, prioritization_weight, internals_config, observations,
           none_priority_index, batch_indices, last_observation, pc, batch_size,
           not_sampled_index, sum_priorities, observation, rows, calls, outcome,
           sampled_since_update >>

\* the Agent
agent == << agent_class, actions_config, unique_action, continuous_actions, exploration,
            preprocessing, processed, episode, timestep, current_internal, next_internal,
            current_state, current_action, model_internal, model_call, evaluated,
            agent_outcome >>

\* what DQFDAgent adds to the Agent
dqfd == << demo_sampling_ratio, config_batch_size, demo_batch_size, first_update,
           update_frequency, repeat_update, observe_trace >>

\* the QModel
qmodel == << variables, training_variables, target_variables, update_target_weight,
             clip_loss, clip_gradients, delta, huber_loss, q_loss, q_outcome >>

\* the PolicyGradientModel
pgmodel == << discount, gae_lambda, baseline, gae_rewards, batch_rewards,
              batch_terminals, state_values, td_residuals, estimated_rewards,
              discounted_rewards, normalize_rewards, normalization, fitted, pg_trace,
              pg_outcome >>

\* the batch given to QModel.update_feed_dict and what it feeds
feed == << feed_batch, feed_dict, feed_outcome >>

\* the ALE environment and its emulator
ale == << rom_lives, ale_lives, ale_game_over, ale_reward, loss_of_life_termination, loss_of_life_reward, cur_lives, life_lost, ale_outcome >>

\* the DQNModel
dqn == << internal_state_inputs, training_internal_states, target_internal_states, total_states, dqn_outcome >>

vars == << replay, agent, dqfd, qmodel, pgmodel, feed, ale, dqn >>

\* what no method of PrioritizedReplay touches
beyond_replay == << agent, dqfd, qmodel, pgmodel, feed, ale, dqn >>

\* what no method of Agent touches
beyond_agent == << replay, dqfd, qmodel, pgmodel, feed, ale, dqn >>

\* what no method of DQFDAgent touches, the Agent apart
beyond_dqfd == << replay, qmodel, pgmodel, feed, ale, dqn >>

\* what no method of QModel touches
beyond_qmodel == << replay, agent, dqfd, pgmodel, feed, ale, dqn >>

\* what no method of PolicyGradientModel touches
beyond_pgmodel == << replay, agent, dqfd, qmodel, feed, ale, dqn >>

\* what update_feed_dict never touches
beyond_feed == << replay, agent, dqfd, qmodel, pgmodel, ale, dqn >>

\* what no method of ALE touches
beyond_ale == << replay, agent, dqfd, qmodel, pgmodel, feed, dqn >>

\* what no method of DQNModel touches
beyond_dqn == << replay, agent, dqfd, qmodel, pgmodel, feed, ale >>

\* what get_batch never assigns
kept == << capacity, prioritization_weight, internals_config, observations,
           none_priority_index, last_observation, calls >>

locals == << batch_size, not_sampled_index, sum_priorities, observation, rows >>

\* ---- Python list operations -----------------------------------------------
\* l[i] for a Python index i
At(l, i) == l[i + 1]

\* the list l.pop(i) leaves (-len(l) <= i < len(l)); a negative i counts from the end
Pop(l, i) ==
    LET j == IF i < 0 THEN i + Len(l) ELSE i
    IN  [k \in 1..(Len(l) - 1) |-> IF k <= j THEN l[k] ELSE l[k + 1]]

\* the position list.insert(i, x) uses: negative i counts from the end, then clamps
InsertPos(l, i) ==
    LET j == IF i < 0 THEN i + Len(l) ELSE i
    IN  IF j < 0 THEN 0 ELSE IF j > Len(l) THEN Len(l) ELSE j

\* l.insert(i, x)
Insert(l, i, x) ==
    LET p == InsertPos(l, i)
    IN  [k \in 1..(Len(l) + 1) |-> IF k <= p THEN l[k] ELSE IF k = p + 1 THEN x ELSE l[k - 1]]

\* x in l
In(x, l) == \E k \in 1..Len(l) : l[k] = x

Priority(entry) == entry[1]
Observation(entry) == entry[2]

\* ---- no object constructed ------------------------------------------------------
\* no PrioritizedReplay exists
NoReplay ==
    /\ capacity = 0
    /\ prioritization_weight = 0
    /\ internals_config = FALSE
    /\ observations = << >>
    /\ none_priority_index = 0
    /\ batch_indices = NoBatch
    /\ last_observation = None
    /\ pc = ""
    /\ batch_size = 0
    /\ not_sampled_index = 0
    /\ sum_priorities = 0
    /\ observation = Unbound
    /\ rows = << >>
    /\ calls = 0
    /\ outcome = << "", "", "" >>
    /\ sampled_since_update = FALSE

\* no Agent exists
NoAgent ==
    /\ agent_class = ""
    /\ actions_config = {}
    /\ unique_action = FALSE
    /\ continuous_actions = {}
    /\ exploration = {}
    /\ preprocessing = FALSE
    /\ processed = 0
    /\ episode = 0
    /\ timestep = 0
    /\ current_internal = None
    /\ next_internal = None
    /\ current_state = Unbound
    /\ current_action = Unbound
    /\ model_internal = None
    /\ model_call = Unbound
    /\ evaluated = {}
    /\ agent_outcome = << "", "", Unbound >>

\* the agent is no DQFDAgent
NoDQFD ==
    /\ demo_sampling_ratio = << 0, 1 >>
    /\ config_batch_size = 0
    /\ demo_batch_size = 0
    /\ first_update = 0
    /\ update_frequency = 0
    /\ repeat_update = 0
    /\ observe_trace = << >>

\* no QModel exists
NoQModel ==
    /\ variables = << >>
    /\ training_variables = << >>
    /\ target_variables = << >>
    /\ update_target_weight = 0
    /\ clip_loss = 0
    /\ clip_gradients = 0
    /\ delta = << >>
    /\ huber_loss = << >>
    /\ q_loss = << 0, 1 >>
    /\ q_outcome = ""

\* no PolicyGradientModel exists
NoPGModel ==
    /\ discount = 0
    /\ gae_lambda = 0
    /\ baseline = FALSE
    /\ gae_rewards = FALSE
    /\ batch_rewards = << >>
    /\ batch_terminals = << >>
    /\ state_values = Unbound
    /\ td_residuals = Unbound
    /\ estimated_rewards = << >>
    /\ discounted_rewards = << >>
    /\ normalize_rewards = FALSE
    /\ normalization = << >>
    /\ fitted = 0
    /\ pg_trace = << >>
    /\ pg_outcome = ""

\* no batch is fed
NoFeed ==
    /\ feed_batch = << >>
    /\ feed_dict = << >>
    /\ feed_outcome = ""

\* no ALE environment exists
NoALE ==
    /\ rom_lives = 0
    /\ ale_lives = 0
    /\ ale_game_over = FALSE
    /\ ale_reward = 0
    /\ loss_of_life_termination = FALSE
    /\ loss_of_life_reward = 0
    /\ cur_lives = 0
    /\ life_lost = FALSE
    /\ ale_outcome = << "", 0, FALSE >>

\* no DQNModel exists
NoDQN ==
    /\ internal_state_inputs = 0
    /\ training_internal_states = << >>
    /\ target_internal_states = << >>
    /\ total_states = 0
    /\ dqn_outcome = << "", "", None >>

\* ---- __init__ ----------------------------------------------------------------
Init ==
    /\ NoAgent
    /\ NoDQFD
    /\ NoQModel
    /\ NoPGModel
    /\ NoFeed
    /\ NoALE
    /\ NoDQN
    /\ capacity \in 1..MaxCapacity
    /\ prioritization_weight \in 1..MaxWeight
    /\ internals_config = FALSE
    /\ observations = << >>
    /\ none_priority_index = 0
    /\ batch_indices = NoBatch
    /\ last_observation = None
    /\ pc = "idle"
    /\ batch_size = 0
    /\ not_sampled_index = 0
    /\ sum_priorities = 0
    /\ observation = Unbound
    /\ rows = << >>
    /\ calls = 0
    /\ outcome = << "__init__", "ok", "" >>
    /\ sampled_since_update = FALSE

\* ---- add_observation -----------------------------------------------------------
\* faulty variant of HasRoom: appends also to a full store
HasRoomUpTo(obs, cap) == Len(obs) <= cap

\* line 50: there is room to append
HasRoom(obs, cap) == Len(obs) < cap

\* faulty variant of CanEvict: evicts also when no entry has a priority
CanAlwaysEvict(npi) == npi >= 0

\* line 52: a full store can evict
CanEvict(npi) == npi > 0

\* faulty variant of EvictIndex: evicts the first entry
EvictFirst(npi) == 0

\* line 53: the index the full store evicts
EvictIndex(npi) == npi - 1

\* faulty variant of Transition: the call's own arguments instead of the pending ones
TransitionOfCall(last, c) == << c, c >>

\* line 48: last_observation + (state,), the state being that of call number c
Transition(last, c) == << last, c >>

\* faulty variant of Appended: the new entry goes in front
Prepended(obs, entry) == << entry >> \o obs

\* lines 51 and 54: self.observations.append((None, observation))
Appended(obs, entry) == Append(obs, entry)

\* add_observation(state, action, reward, terminal, internal); the arguments are
\* those of call number calls + 1, internal being a list
add_observation ==
    /\ pc = "idle"
    /\ calls < MaxAdds
    /\ calls' = calls + 1
    /\ internals_config' = TRUE
    /\ UNCHANGED << capacity, prioritization_weight, batch_indices, pc, locals,
                    sampled_since_update, beyond_replay >>
    /\ IF last_observation = None
       THEN /\ UNCHANGED << observations, none_priority_index >>
            /\ last_observation' = calls'
            /\ outcome' = << "add_observation", "ok", "pending" >>
       ELSE LET new == << None, Transition(last_observation, calls') >>
            IN  IF HasRoom(observations, capacity)
                THEN /\ observations' = Appended(observations, new)
                     /\ UNCHANGED none_priority_index
                     /\ last_observation' = calls'
                     /\ outcome' = << "add_observation", "ok", "append" >>
                ELSE IF CanEvict(none_priority_index)
                THEN /\ observations' =
                            Appended(Pop(observations, EvictIndex(none_priority_index)), new)
                     /\ none_priority_index' = none_priority_index - 1
                     /\ last_observation' = calls'
                     /\ outcome' = << "add_observation", "ok", "evict" >>
                ELSE /\ UNCHANGED << observations, none_priority_index, last_observation >>
                     /\ outcome' = << "add_observation", "TensorForceError", "full" >>

\* ---- get_batch -------------------------------------------------------------------
RECURSIVE SumPriorities(_)
\* line 82: sum(priority for priority, _ in observations if priority is not None)
SumPriorities(obs) ==
    IF obs = << >> THEN 0
    ELSE (IF Priority(Head(obs)) = None THEN 0 ELSE Priority(Head(obs)))
         + SumPriorities(Tail(obs))

\* faulty variant of UnseenLeft: stops one entry early
UnseenLeftButOne(nsi, obs) == nsi + 1 < Len(obs)

\* line 84: an unseen entry is left to take
UnseenLeft(nsi, obs) == nsi < Len(obs)

\* line 88: sum_priorities / capacity < util.epsilon
Negligible(total, cap) == total * EpsilonInverse < cap

RECURSIVE RouletteIndex(_, _, _, _)
\* lines 95-98: the index at which the roulette loop stops.  sample is the draw
\* of random() in units of 1 / sum_priorities, so that subtracting
\* priority / sum_priorities subtracts priority; a draw in [t, t + 1) goes
\* below 0.0 exactly when t does.  The loop running off the list leaves the
\* last index; an entry without priority cannot be subtracted (TypeError, None).
RouletteIndex(obs, npi, sample, index) ==
    IF index >= Len(obs) THEN Len(obs) - 1
    ELSE IF Priority(At(obs, index)) = None THEN None
    ELSE LET rest == sample - Priority(At(obs, index))
         IN  IF rest < 0 \/ index >= npi THEN index
             ELSE RouletteIndex(obs, npi, rest, index + 1)

\* faulty variant of AlreadyDrawn: no draw is rejected
NeverDrawn(index, batch) == FALSE

\* lines 90 and 99: the drawn index is in the batch already
AlreadyDrawn(index, batch) == In(index, batch)

\* lines 102-113 for a drawn index, obs being the value of the local observation:
\* the row is packed from obs, the index is recorded, and the call returns after
\* the last row
PackRow(index, obs, branch) ==
    /\ observation' = obs
    /\ rows' = Append(rows, obs)
    /\ batch_indices' = Append(batch_indices, index)
    /\ IF Len(batch_indices') = batch_size
       THEN /\ pc' = "idle"
            /\ outcome' = << "get_batch", "ok", branch >>
       ELSE /\ pc' = "get_batch"
            /\ outcome' = << "get_batch", "running", branch >>

\* get_batch stops with an exception: what it assigned so far stays
RaiseInGetBatch(exception, branch) ==
    /\ pc' = "idle"
    /\ outcome' = << "get_batch", exception, branch >>
    /\ UNCHANGED << batch_indices, observation, rows >>

\* get_batch(batch_size), lines 72-82: the arrays, then the locals of the loop
get_batch(size) ==
    /\ pc = "idle"
    /\ UNCHANGED << kept, beyond_replay >>
    /\ sampled_since_update' = TRUE
    /\ IF ~internals_config
       THEN \* line 76 iterates over None
            /\ outcome' = << "get_batch", "TypeError", "" >>
            /\ UNCHANGED << batch_indices, pc, locals >>
       ELSE /\ batch_size' = size
            /\ batch_indices' = << >>
            /\ not_sampled_index' = none_priority_index
            /\ sum_priorities' = SumPriorities(observations)
            /\ observation' = Unbound
            /\ rows' = << >>
            /\ IF size = 0
               THEN pc' = "idle" /\ outcome' = << "get_batch", "ok", "" >>
               ELSE pc' = "get_batch" /\ outcome' = << "get_batch", "running", "" >>

\* one pass of the loop of line 83 through lines 84-87
get_batch_unseen ==
    /\ pc = "get_batch"
    /\ UnseenLeft(not_sampled_index, observations)
    /\ not_sampled_index' = not_sampled_index + 1
    /\ PackRow(not_sampled_index, Observation(At(observations, not_sampled_index)), "unseen")
    /\ UNCHANGED << kept, batch_size, sum_priorities, sampled_since_update, beyond_replay >>

\* one pass of the loop of line 83 through lines 88-91: a draw of randrange that
\* is already in the batch is drawn again (the state stays as it is)
get_batch_uniform ==
    /\ pc = "get_batch"
    /\ ~UnseenLeft(not_sampled_index, observations)
    /\ Negligible(sum_priorities, capacity)
    /\ UNCHANGED << beyond_replay, kept, batch_size, sum_priorities, not_sampled_index,
                    sampled_since_update >>
    /\ IF none_priority_index = 0
       THEN \* randrange(0)
            RaiseInGetBatch("ValueError", "uniform")
       ELSE \E index \in 0..(none_priority_index - 1) :
                IF AlreadyDrawn(index, batch_indices)
                THEN UNCHANGED << batch_indices, pc, observation, rows, outcome >>
                ELSE IF observation = Unbound
                THEN \* line 103 reads observation, which this branch never assigns
                     RaiseInGetBatch("UnboundLocalError", "uniform")
                ELSE PackRow(index, observation, "uniform")

\* one pass of the loop of line 83 through lines 92-100: a draw of random() whose
\* index is already in the batch is drawn again (the state stays as it is)
get_batch_roulette ==
    /\ pc = "get_batch"
    /\ ~UnseenLeft(not_sampled_index, observations)
    /\ ~Negligible(sum_priorities, capacity)
    /\ UNCHANGED << beyond_replay, kept, batch_size, sum_priorities, not_sampled_index,
                    sampled_since_update >>
    /\ \E sample \in 0..(sum_priorities - 1) :
           LET index == RouletteIndex(observations, none_priority_index, sample, 0)
           IN  IF index = None
               THEN RaiseInGetBatch("TypeError", "roulette")
               ELSE IF AlreadyDrawn(index, batch_indices)
               THEN UNCHANGED << batch_indices, pc, observation, rows, outcome >>
               ELSE PackRow(index, Observation(At(observations, index)), "roulette")

\* ---- update_batch ----------------------------------------------------------------
RECURSIVE Power(_, _)
\* loss ** weight
Power(loss, weight) == IF weight = 0 THEN 1 ELSE loss * Power(loss, weight - 1)

\* line 130
NoBatchOutstanding(batch) == batch = NoBatch

\* faulty variant of LengthMismatch: only a longer loss vector is refused
LengthExcess(losses, batch) == Len(losses) > Len(batch)

\* line 132
LengthMismatch(losses, batch) == Len(losses) # Len(batch)

\* line 136: zip(batch_indices, loss_per_instance) has as many pairs as the shorter
Zipped(batch, losses) == IF Len(batch) <= Len(losses) THEN Len(batch) ELSE Len(losses)

\* line 137 reads observations[index], an IndexError when the index is past the end
IndexPastEnd(obs, batch, losses) ==
    \E k \in 1..Zipped(batch, losses) : batch[k] >= Len(obs)

\* lines 135-138: the (priority, observation) pairs of the batch
Updated(obs, batch, losses, weight) ==
    [k \in 1..Zipped(batch, losses) |->
        << Power(losses[k], weight), Observation(At(obs, batch[k])) >>]

RECURSIVE SortedReverse(_)
\* line 139: sorted(batch_indices, reverse=True)
SortedReverse(batch) ==
    IF batch = << >> THEN << >>
    ELSE LET front == SortedReverse(SubSeq(batch, 1, Len(batch) - 1))
             x == batch[Len(batch)]
             before == Cardinality({k \in 1..Len(front) : front[k] >= x})
         IN  Insert(front, before, x)

RECURSIVE SortedUpdated(_)
\* line 143: sorted(updated, key=(lambda x: x[0])), ascending and stable
SortedUpdated(updated) ==
    IF updated = << >> THEN << >>
    ELSE LET front == SortedUpdated(SubSeq(updated, 1, Len(updated) - 1))
             x == updated[Len(updated)]
             before == Cardinality({k \in 1..Len(front) : Priority(front[k]) <= Priority(x)})
         IN  Insert(front, before, x)

\* faulty variant of RemovedSeen: the boundary stays when an entry with priority goes
RemovedNothing(priority) == 0

\* faulty variant of RemovedSeen: the boundary moves for every entry that goes
RemovedAny(priority) == 1

\* line 141: what the removal of an entry of this priority subtracts
RemovedSeen(priority) == IF priority # None THEN 1 ELSE 0

RECURSIVE PopBatch(_, _, _)
\* lines 139-141: pops the indices in the given order; the result is
\* << observations, none_priority_index, TRUE >>, or the two as they are when
\* pop raises an IndexError and FALSE
PopBatch(obs, npi, indices) ==
    IF indices = << >> THEN << obs, npi, TRUE >>
    ELSE IF Head(indices) >= Len(obs) THEN << obs, npi, FALSE >>
    ELSE PopBatch(Pop(obs, Head(indices)),
                  npi - RemovedSeen(Priority(At(obs, Head(indices)))),
                  Tail(indices))

\* faulty variant of Cleared: the batch stays outstanding
NotCleared(batch) == batch

\* line 142
Cleared(batch) == NoBatch

RECURSIVE Drain(_, _, _, _)
\* lines 162-164: while updated: insert(index, updated.pop())
Drain(obs, npi, updated, index) ==
    IF updated = << >> THEN << obs, npi >>
    ELSE Drain(Insert(obs, index, updated[Len(updated)]), npi + 1,
               SubSeq(updated, 1, Len(updated) - 1), index)

\* line 149: the scan stops at the boundary
AtBoundary(index, npi) == index = npi

\* line 151: the held update goes further down the list
GoesAfter(update_priority, priority) == update_priority < priority

RECURSIVE Scan(_, _, _, _, _, _)
\* lines 147-161: the for loop over iter(observations) and its else clause.
\* held is (update_priority, update_observation), updated the list still to pop
\* from, index the loop's counter, and position the place of the list iterator:
\* the iterator yields observations[position] of the list as it is then, also
\* after an insert in front of it, and is exhausted at the list's end.
Scan(obs, npi, updated, held, index, position) ==
    IF position >= Len(obs)
    THEN \* else clause, lines 160-161, then lines 162-164
         Drain(Insert(obs, index, held), npi + 1, updated, index)
    ELSE LET priority == Priority(At(obs, position))
             counted == index + 1
         IN  IF AtBoundary(counted, npi)
             THEN \* break of line 150, then lines 162-164
                  Drain(obs, npi, updated, counted)
             ELSE IF GoesAfter(Priority(held), priority)
             THEN Scan(obs, npi, updated, held, counted, position + 1)
             ELSE LET inserted == Insert(obs, counted, held)
                  IN  IF updated = << >>
                      THEN \* break of line 157
                           << inserted, npi + 1 >>
                      ELSE Scan(inserted, npi + 1,
                                SubSeq(updated, 1, Len(updated) - 1),
                                updated[Len(updated)], counted + 1, position + 1)

\* lines 143-164 on the list that lines 139-141 left, updated holding at least
\* one pair: << observations, none_priority_index >> at the end
Reinserted(obs, npi, updated) ==
    LET sorted == SortedUpdated(updated)
    IN  Scan(obs, npi, SubSeq(sorted, 1, Len(sorted) - 1), sorted[Len(sorted)], -1, 0)

\* the loss vectors update_batch is called with
LossVectors == UNION {[1..k -> 0..MaxLoss] : k \in 0..MaxBatch}

\* update_batch(loss_per_instance)
update_batch(loss_per_instance) ==
    /\ pc = "idle"
    /\ UNCHANGED << capacity, prioritization_weight, internals_config,
                    last_observation, pc, locals, calls, beyond_replay >>
    /\ IF NoBatchOutstanding(batch_indices) \/ LengthMismatch(loss_per_instance, batch_indices)
       THEN /\ outcome' = << "update_batch", "TensorForceError", "" >>
            /\ UNCHANGED << observations, none_priority_index, batch_indices,
                            sampled_since_update >>
       ELSE IF IndexPastEnd(observations, batch_indices, loss_per_instance)
       THEN \* line 137
            /\ outcome' = << "update_batch", "IndexError", "" >>
            /\ UNCHANGED << observations, none_priority_index, batch_indices,
                            sampled_since_update >>
       ELSE LET updated == Updated(observations, batch_indices, loss_per_instance,
                                   prioritization_weight)
                popped == PopBatch(observations, none_priority_index,
                                   SortedReverse(batch_indices))
            IN  IF ~popped[3]
                THEN \* line 140
                     /\ outcome' = << "update_batch", "IndexError", "" >>
                     /\ observations' = popped[1]
                     /\ none_priority_index' = popped[2]
                     /\ UNCHANGED << batch_indices, sampled_since_update >>
                ELSE IF updated = << >>
                THEN \* line 145 pops from an empty list
                     /\ outcome' = << "update_batch", "IndexError", "" >>
                     /\ observations' = popped[1]
                     /\ none_priority_index' = popped[2]
                     /\ batch_indices' = Cleared(batch_indices)
                     /\ UNCHANGED sampled_since_update
                ELSE LET end == Reinserted(popped[1], popped[2], updated)
                     IN  /\ observations' = end[1]
                         /\ none_priority_index' = end[2]
                         /\ batch_indices' = Cleared(batch_indices)
                         /\ outcome' = << "update_batch", "ok", "" >>
                         /\ sampled_since_update' = FALSE

Next ==
    \/ add_observation
    \/ \E loss_per_instance \in LossVectors : update_batch(loss_per_instance)
    \/ \E size \in 0..MaxBatch : get_batch(size)
    \/ get_batch_unseen
    \/ get_batch_uniform
    \/ get_batch_roulette

Spec == Init /\ [][Next]_vars

\* ==== Agent (tensorforce/agents/agent.py) ==========================================
\* the value of model.reset(): the initial internal state
ModelReset == 0

\* the internal states model.get_action can return
Internals == 0..MaxInternal

\* the actions model.get_action can return for the components names
ModelActions(names) == [names -> 0..(NumActions - 1)]

\* preprocessing.process(state) of a preprocessor that has processed n states since
\* its reset: the result depends on the state and on what came before
Process(state, n) == << state, n + 1 >>

\* ---- __init__ ---------------------------------------------------------------------
\* lines 94-151 for an Agent whose observe is the abstract one
InitAgent ==
    /\ NoReplay
    /\ NoDQFD
    /\ NoQModel
    /\ NoPGModel
    /\ NoFeed
    /\ NoALE
    /\ NoDQN
    /\ agent_class = "Agent"
    /\ actions_config \in {1..n : n \in 1..MaxActions}
    /\ unique_action \in {u \in BOOLEAN : u => actions_config = {1}}
    /\ continuous_actions \in SUBSET actions_config
    /\ exploration \in SUBSET actions_config
    /\ preprocessing \in BOOLEAN
    /\ processed = 0
    /\ episode = 0
    /\ timestep = 0
    /\ current_internal = ModelReset
    /\ next_internal = ModelReset
    /\ model_internal = ModelReset
    /\ current_state = Unbound
    /\ current_action = Unbound
    /\ model_call = Unbound
    /\ evaluated = {}
    /\ agent_outcome = << "__init__", "ok", Unbound >>

\* ---- reset ------------------------------------------------------------------------
\* faulty variant of PreprocessingReset: the preprocessor keeps what it has seen
PreprocessingKept(n) == n

\* preprocessing.reset() of a preprocessor that has processed n states: it has
\* processed none afterwards
PreprocessingReset(n) == 0

\* lines 163-166
reset ==
    /\ agent_class # ""
    /\ episode < MaxEpisode
    /\ episode' = episode + 1
    /\ model_internal' = ModelReset
    /\ current_internal' = model_internal'
    /\ next_internal' = model_internal'
    /\ processed' = PreprocessingReset(processed)
    /\ agent_outcome' = << "reset", "ok", None >>
    /\ UNCHANGED << agent_class, actions_config, unique_action, continuous_actions,
                    exploration, preprocessing, timestep, current_state, current_action,
                    model_call, evaluated, beyond_agent >>

\* ---- act --------------------------------------------------------------------------
\* faulty variant of InternalOfAct: keeps the internal state of the call before
InternalKept(current, next) == current

\* line 184: the internal state act passes to the model
InternalOfAct(current, next) == next

\* faulty variant of Explores: explores in deterministic mode too
ExploresAlways(deterministic) == TRUE

\* line 199
Explores(deterministic) == ~deterministic

\* lines 200-205 for one component: noise is the value of the exploration function
\* added to a continuous action; replacement is the randrange(num_actions) that
\* replaces a discrete action, None when random() did not come out below that value
ExploredAction(action, name, continuous, noise, replacement) ==
    IF name \in continuous THEN action[name] + noise[name]
    ELSE IF replacement[name] # None THEN replacement[name] ELSE action[name]

\* lines 207-210
ReturnedAction(unique, action) == IF unique THEN action[1] ELSE action

\* act(state, deterministic)
act(state, deterministic) ==
    /\ agent_class # ""
    /\ timestep < MaxTimestep
    /\ timestep' = timestep + 1
    /\ current_internal' = InternalOfAct(current_internal, next_internal)
    /\ IF preprocessing
       THEN /\ current_state' = Process(state, processed)
            /\ processed' = processed + 1
       ELSE /\ current_state' = << state, 0 >>
            /\ UNCHANGED processed
    /\ \E action \in ModelActions(actions_config), internal \in Internals :
          /\ model_call' = [state |-> current_state', internal |-> current_internal',
                            deterministic |-> deterministic, action |-> action]
          /\ model_internal' = internal
          /\ next_internal' = internal
          /\ IF Explores(deterministic)
             THEN /\ evaluated' = exploration
                  /\ \E noise \in [exploration \cap continuous_actions -> 0..MaxNoise],
                        replacement \in [exploration \ continuous_actions ->
                                             {None} \cup 0..(NumActions - 1)] :
                        current_action' =
                            [name \in actions_config |->
                                IF name \in exploration
                                THEN ExploredAction(action, name, continuous_actions,
                                                    noise, replacement)
                                ELSE action[name]]
             ELSE /\ evaluated' = {}
                  /\ current_action' = action
    /\ agent_outcome' = << "act", "ok", ReturnedAction(unique_action, current_action') >>
    /\ UNCHANGED << agent_class, actions_config, unique_action, continuous_actions,
                    exploration, preprocessing, episode, beyond_agent >>

\* ---- observe ----------------------------------------------------------------------
\* line 223: the base class has no observe
Agent_observe ==
    /\ agent_class = "Agent"
    /\ agent_outcome' = << "observe", "NotImplementedError", Unbound >>
    /\ UNCHANGED << agent_class, actions_config, unique_action, continuous_actions,
                    exploration, preprocessing, processed, episode, timestep,
                    current_internal, next_internal, current_state, current_action,
                    model_internal, model_call, evaluated, beyond_agent >>

\* ---- last_observation -------------------------------------------------------------
\* lines 225-232, the fields Agent itself assigns
LastObservation ==
    [state |-> current_state, action |-> current_action, internal |-> current_internal]

NextAgent ==
    \/ \E state \in 0..MaxState, deterministic \in BOOLEAN : act(state, deterministic)
    \/ reset
    \/ Agent_observe

SpecAgent == InitAgent /\ [][NextAgent]_vars

\* ==== DQFDAgent (tensorforce/agents/dqfd_agent.py) =================================
\* line 88: the default demo_sampling_ratio, 0.01
DefaultRatio == << 1, 100 >>

\* the values of config.demo_sampling_ratio: the default, and 0, 1/RatioSteps, ...
\* up to and beyond 1
Ratios == {DefaultRatio} \cup {<< n, RatioSteps >> : n \in 0..(RatioSteps + 1)}

\* the values of config.batch_size: small ones, and the two around the least batch
\* size the default ratio admits
BatchSizes == 1..MaxBatchSize \cup {98, 99}

\* int(num / den) for den # 0: Python's int() drops the fraction, towards zero
Truncated(num, den) ==
    LET n == IF den < 0 THEN -num ELSE num
        d == IF den < 0 THEN -den ELSE den
    IN  IF n >= 0 THEN n \div d ELSE -((-n) \div d)

\* line 102 before int(): p * batch_size / (1.0 - p) as << numerator, denominator >>,
\* for p = ratio[1] / ratio[2]
DemoFraction(ratio, size) == << ratio[1] * size, ratio[2] - ratio[1] >>

\* faulty variant of Positive: admits a demo batch of no rows
NotNegative(size) == size >= 0

\* line 103: the assertion
Positive(size) == size > 0

\* ---- __init__ ---------------------------------------------------------------------
\* lines 91-103, after the constructor of MemoryAgent, for an agent with one discrete
\* action and no preprocessor.  A constructor that raises leaves no agent
\* (agent_class = ""); the fields keep what it had assigned by then.
InitDQFD ==
    /\ NoReplay
    /\ NoQModel
    /\ NoPGModel
    /\ NoFeed
    /\ NoALE
    /\ NoDQN
    /\ actions_config = {1}
    /\ unique_action = TRUE
    /\ continuous_actions = {}
    /\ exploration \in SUBSET actions_config
    /\ preprocessing = FALSE
    /\ processed = 0
    /\ episode = 0
    /\ timestep = 0
    /\ current_internal = ModelReset
    /\ next_internal = ModelReset
    /\ model_internal = ModelReset
    /\ current_state = Unbound
    /\ current_action = Unbound
    /\ model_call = Unbound
    /\ evaluated = {}
    /\ demo_sampling_ratio \in Ratios
    /\ config_batch_size \in BatchSizes
    /\ first_update \in 0..MaxFirstUpdate
    /\ update_frequency \in 1..MaxFrequency
    /\ repeat_update \in 1..MaxRepeat
    /\ observe_trace = << >>
    /\ LET fraction == DemoFraction(demo_sampling_ratio, config_batch_size)
       IN  IF fraction[2] = 0
           THEN /\ demo_batch_size = 0
                /\ agent_class = ""
                /\ agent_outcome = << "__init__", "ZeroDivisionError", Unbound >>
           ELSE /\ demo_batch_size = Truncated(fraction[1], fraction[2])
                /\ IF Positive(demo_batch_size)
                   THEN /\ agent_class = "DQFDAgent"
                        /\ agent_outcome = << "__init__", "ok", Unbound >>
                   ELSE /\ agent_class = ""
                        /\ agent_outcome = << "__init__", "AssertionError", Unbound >>

\* ---- observe ----------------------------------------------------------------------
\* faulty variant of UpdateDue: starts one timestep late
UpdateDueLate(t, first, frequency) == t > first /\ t % frequency = 0

\* line 119
UpdateDue(t, first, frequency) == t >= first /\ t % frequency = 0

\* MemoryAgent.observe: the transition goes to the memory; on schedule, repeat
\* model updates, each on one batch drawn for it.  A batch is named by the place of
\* its get_batch among those of the call and memory.
InheritedObserve(t, first, frequency, repeat, size) ==
    << << "memory.add_observation" >> >>
    \o (IF UpdateDue(t, first, frequency)
        THEN [k \in 1..(2 * repeat) |->
                 IF k % 2 = 1 THEN << "memory.get_batch", size, (k + 1) \div 2 >>
                 ELSE << "model.update", k \div 2 >>]
        ELSE << >>)

\* lines 119-122
DemonstrationUpdates(t, first, frequency, repeat, size) ==
    IF UpdateDue(t, first, frequency)
    THEN [k \in 1..(2 * repeat) |->
             IF k % 2 = 1 THEN << "demo_memory.get_batch", size, (k + 1) \div 2 >>
             ELSE << "model.demonstration_update", k \div 2 >>]
    ELSE << >>

\* observe(reward, terminal), lines 117-122
DQFDAgent_observe ==
    /\ agent_class = "DQFDAgent"
    /\ observe_trace' =
           InheritedObserve(timestep, first_update, update_frequency, repeat_update,
                            config_batch_size)
           \o DemonstrationUpdates(timestep, first_update, update_frequency,
                                   repeat_update, demo_batch_size)
    /\ agent_outcome' = << "observe", "ok", None >>
    /\ UNCHANGED << agent_class, actions_config, unique_action, continuous_actions,
                    exploration, preprocessing, processed, episode, timestep,
                    current_internal, next_internal, current_state, current_action,
                    model_internal, model_call, evaluated, beyond_dqfd,
                    demo_sampling_ratio, config_batch_size, demo_batch_size,
                    first_update, update_frequency, repeat_update >>

NextDQFD ==
    \/ \E state \in 0..MaxState, deterministic \in BOOLEAN : act(state, deterministic)
    \/ reset
    \/ DQFDAgent_observe

SpecDQFD == InitDQFD /\ [][NextDQFD]_vars

\* ==== QModel (tensorforce/models/q_model.py) =======================================
\* the variables of the graph: each network builds NumVariables variables in the
\* variable scope it is created in
VariableNames == {"training", "target"} \X (1..NumVariables)

\* tf.contrib.framework.get_variables(scope): the variables created in the scope,
\* in the order of their creation
GetVariables(scope) == [n \in 1..NumVariables |-> << scope, n >>]

\* line 59: `with tf.variable_scope('training') as scope` binds scope
ScopeOfTraining == "training"

\* line 68: `with tf.variable_scope('target')` has no `as`, scope stays bound as before
ScopeOfTarget == ScopeOfTraining

\* zip(a, b)
Zip(a, b) ==
    [k \in 1..(IF Len(a) < Len(b) THEN Len(a) ELSE Len(b)) |-> << a[k], b[k] >>]

\* line 106: the value v_target.assign_sub(weight * (v_target - v_source)) leaves
AssignSub(v_target, v_source, weight) == v_target - weight * (v_target - v_source)

\* line 96, for one TD error, doubled: 0.5 * square(delta) below the bound, else
\* abs(delta) - 0.5
Abs(x) == IF x < 0 THEN -x ELSE x

HuberLoss(d, bound) == IF Abs(d) < bound THEN d * d ELSE 2 * Abs(d) - 1

\* line 92, doubled
SquaredLoss(d) == 2 * d * d

RECURSIVE Sum(_)
Sum(values) == IF values = << >> THEN 0 ELSE Head(values) + Sum(Tail(values))

\* tf.reduce_mean over the rows, of doubled values
ReduceMean(doubled) == << Sum(doubled), 2 * Len(doubled) >>

\* ---- create_tf_operations ---------------------------------------------------------
\* lines 47-107: both networks are built and their variables initialized
InitQ ==
    /\ NoReplay
    /\ NoAgent
    /\ NoDQFD
    /\ NoPGModel
    /\ NoFeed
    /\ NoALE
    /\ NoDQN
    /\ variables \in [VariableNames -> 0..MaxValue]
    /\ training_variables = GetVariables(ScopeOfTraining)
    /\ target_variables = GetVariables(ScopeOfTarget)
    /\ update_target_weight \in 0..MaxTargetWeight
    /\ clip_loss \in 0..MaxClip
    /\ clip_gradients \in 0..MaxClip
    /\ delta = << >>
    /\ huber_loss = << >>
    /\ q_loss = << 0, 1 >>
    /\ q_outcome = "__init__"

\* ---- update -----------------------------------------------------------------------
\* one optimizer step on q_loss, lines 91-100: deltas are the TD errors of the rows,
\* values what the step leaves in the variables of the training network
QModel_update(deltas, values) ==
    /\ q_outcome # ""
    /\ delta' = deltas
    /\ huber_loss' = [k \in 1..Len(deltas) |->
                         IF clip_loss > 0 THEN HuberLoss(deltas[k], clip_gradients)
                         ELSE SquaredLoss(deltas[k])]
    /\ q_loss' = ReduceMean(huber_loss')
    /\ variables' = [name \in VariableNames |->
                        IF name[1] = "training" THEN values[name[2]] ELSE variables[name]]
    /\ q_outcome' = "update"
    /\ UNCHANGED << training_variables, target_variables, update_target_weight,
                    clip_loss, clip_gradients, beyond_qmodel >>

\* ---- update_target ----------------------------------------------------------------
\* lines 140-145 run the operations of lines 104-107
update_target ==
    /\ q_outcome # ""
    /\ LET pairs == Zip(training_variables, target_variables)
       IN  variables' =
               [name \in VariableNames |->
                   IF \E k \in 1..Len(pairs) : pairs[k][2] = name
                   THEN LET k == CHOOSE k \in 1..Len(pairs) : pairs[k][2] = name
                        IN  AssignSub(variables[name], variables[pairs[k][1]],
                                      update_target_weight)
                   ELSE variables[name]]
    /\ q_outcome' = "update_target"
    /\ UNCHANGED << training_variables, target_variables, update_target_weight,
                    clip_loss, clip_gradients, delta, huber_loss, q_loss, beyond_qmodel >>

Deltas == UNION {[1..n -> (-MaxDelta)..MaxDelta] : n \in 1..MaxInstances}

NextQ ==
    \/ \E deltas \in Deltas, values \in [1..NumVariables -> 0..MaxValue] :
          QModel_update(deltas, values)
    \/ update_target

SpecQ == InitQ /\ [][NextQ]_vars

\* ---- QModel.update_feed_dict (tensorforce/models/q_model.py, lines 121-138) --------
\* The model has one state component, one action component and one internal input; a
\* column of the batch is the sequence of its rows.
Column(n) == [1..n -> 0..MaxFeedValue]

\* the batches of n rows, with and without the key 'next_states'
FeedBatches(n) ==
    [states : Column(n), actions : Column(n), rewards : Column(n),
     terminals : [1..n -> BOOLEAN], internals : Column(n)]
    \cup [states : Column(n), actions : Column(n), rewards : Column(n),
          terminals : [1..n -> BOOLEAN], internals : Column(n),
          next_states : Column(n)]

\* faulty variant of AllButLast: the column as it is
Whole(column) == column

\* column[:-1]
AllButLast(column) == SubSeq(column, 1, Len(column) - 1)

\* column[1:]
AllButFirst(column) == SubSeq(column, 2, Len(column))

InitFeed ==
    /\ NoReplay
    /\ NoAgent
    /\ NoDQFD
    /\ NoQModel
    /\ NoPGModel
    /\ NoALE
    /\ NoDQN
    /\ feed_batch \in UNION {FeedBatches(n) : n \in 1..MaxRows}
    /\ feed_dict = << >>
    /\ feed_outcome = "__init__"

\* update_feed_dict(batch)
update_feed_dict ==
    /\ feed_outcome = "__init__"
    /\ feed_dict' =
           IF "next_states" \in DOMAIN feed_batch
           THEN [state |-> feed_batch.states,
                 next_state |-> feed_batch.next_states,
                 action |-> feed_batch.actions,
                 reward |-> feed_batch.rewards,
                 terminal |-> feed_batch.terminals,
                 internal |-> feed_batch.internals]
           ELSE [state |-> AllButLast(feed_batch.states),
                 next_state |-> AllButFirst(feed_batch.states),
                 action |-> AllButLast(feed_batch.actions),
                 reward |-> AllButLast(feed_batch.rewards),
                 terminal |-> AllButLast(feed_batch.terminals),
                 internal |-> AllButLast(feed_batch.internals)]
    /\ feed_outcome' = "update_feed_dict"
    /\ UNCHANGED << feed_batch, beyond_feed >>

NextFeed == update_feed_dict

SpecFeed == InitFeed /\ [][NextFeed]_vars

\* ==== PolicyGradientModel (tensorforce/models/policy_gradient_model.py) ============
\* util.cumulative_discount(values, terminals, discount) from row n on: the value of
\* the row plus discount times the cumulative value of the next row, the cumulation
\* starting anew after a terminal row and after the last row
RECURSIVE CumulativeFrom(_, _, _, _)
CumulativeFrom(values, terminals, rate, n) ==
    IF n = Len(values) \/ terminals[n] THEN values[n]
    ELSE values[n] + rate * CumulativeFrom(values, terminals, rate, n + 1)

CumulativeDiscount(values, terminals, rate) ==
    [n \in 1..Len(values) |-> CumulativeFrom(values, terminals, rate, n)]

\* line 171 for row n (n - 1 in the source): what is added to the reward
Bootstrap(values, terminals, rate, n) ==
    IF n < Len(values) /\ ~terminals[n] THEN rate * values[n + 1] - values[n] ELSE 0

\* lines 170-171
TDResiduals(rewards, terminals, values, rate) ==
    [n \in 1..Len(terminals) |-> rewards[n] + Bootstrap(values, terminals, rate, n)]

\* line 178
Difference(a, b) == [n \in 1..Len(a) |-> a[n] - b[n]]

\* line 187, numerators: (rewards - mean) / max(stddev, util.epsilon) is, for row t,
\* Deviations(rewards)[t] divided by len(rewards) * max(stddev, util.epsilon)
Deviations(rewards) ==
    [t \in 1..Len(rewards) |-> Len(rewards) * rewards[t] - Sum(rewards)]

\* lines 183 and 187, denominator: << v, n >> stands for n * max(sqrt(v) / n,
\* util.epsilon), sqrt(v) / n being rewards.std()
Normalization(rewards) ==
    << Len(rewards) * Sum([t \in 1..Len(rewards) |-> rewards[t] * rewards[t]])
       - Sum(rewards) * Sum(rewards),
       Len(rewards) >>

\* lines 163-165: one predict per state component, by the baseline as fit so far
Predictions(has_baseline, fits) ==
    IF has_baseline THEN [name \in 1..NumStates |-> << "baseline.predict", name, fits >>]
    ELSE << >>

\* faulty variant of Returns: refits the baselines on the rewards to learn from
ReturnsEstimated(rewards, discounted) == rewards

\* line 139: what baseline.update gets as returns
Returns(rewards, discounted) == discounted

\* lines 135-140: one update per state component
BaselineUpdates(has_baseline, rewards, discounted) ==
    IF has_baseline
    THEN [name \in 1..NumStates |->
             << "baseline.update", name, Returns(rewards, discounted) >>]
    ELSE << >>

\* ---- __init__ ---------------------------------------------------------------------
\* lines 50-58 and 73-89
InitPG ==
    /\ NoReplay
    /\ NoAgent
    /\ NoDQFD
    /\ NoQModel
    /\ NoFeed
    /\ NoALE
    /\ NoDQN
    /\ discount \in 1..MaxDiscount
    /\ gae_lambda \in 0..MaxLambda
    /\ baseline \in BOOLEAN
    /\ gae_rewards \in BOOLEAN
    /\ normalize_rewards \in BOOLEAN
    /\ batch_rewards = << >>
    /\ batch_terminals = << >>
    /\ state_values = Unbound
    /\ td_residuals = Unbound
    /\ estimated_rewards = << >>
    /\ discounted_rewards = << >>
    /\ normalization = << >>
    /\ fitted = 0
    /\ pg_trace = << >>
    /\ pg_outcome = "__init__"

\* ---- reward_estimation ------------------------------------------------------------
\* reward_estimation(states, rewards, terminals), lines 155-191: values is the mean,
\* over the state components, of what the baselines predict for the rows of the batch
reward_estimation(rewards, terminals, values) ==
    /\ batch_rewards' = rewards
    /\ batch_terminals' = terminals
    /\ discounted_rewards' = CumulativeDiscount(rewards, terminals, discount)
    /\ LET unnormalized ==
               IF baseline
               THEN IF gae_rewards
                    THEN CumulativeDiscount(TDResiduals(rewards, terminals, values, discount),
                                            terminals, discount * gae_lambda)
                    ELSE Difference(discounted_rewards', values)
               ELSE discounted_rewards'
       IN  IF normalize_rewards
           THEN /\ estimated_rewards' = Deviations(unnormalized)
                /\ normalization' = Normalization(unnormalized)
           ELSE /\ estimated_rewards' = unnormalized
                /\ normalization' = << >>
    /\ state_values' = IF baseline THEN values ELSE Unbound
    /\ td_residuals' = IF baseline /\ gae_rewards
                       THEN TDResiduals(rewards, terminals, values, discount)
                       ELSE Unbound

\* ---- update -----------------------------------------------------------------------
\* update(batch), lines 130-142, reward_estimation being called at line 130
PolicyGradientModel_update(rewards, terminals, values) ==
    /\ pg_outcome # ""
    /\ fitted < MaxFits
    /\ reward_estimation(rewards, terminals, values)
    /\ pg_trace' = Predictions(baseline, fitted)
                   \o BaselineUpdates(baseline, estimated_rewards', discounted_rewards')
                   \o << << "Model.update", estimated_rewards', normalization' >> >>
    /\ fitted' = IF baseline THEN fitted + 1 ELSE fitted
    /\ pg_outcome' = "update"
    /\ UNCHANGED << discount, gae_lambda, baseline, gae_rewards, normalize_rewards,
                    beyond_pgmodel >>

\* the batches of up to MaxSteps rows: rewards, terminals and predicted values
Batches ==
    UNION {[1..n -> 0..MaxReward] \X [1..n -> BOOLEAN] \X [1..n -> 0..MaxStateValue] :
               n \in 1..MaxSteps}

NextPG ==
    \E batch \in Batches : PolicyGradientModel_update(batch[1], batch[2], batch[3])

SpecPG == InitPG /\ [][NextPG]_vars

\* ==== ALE (tensorforce/contrib/ale.py) ================================================
\* The emulator is the environment's environment: each self.ale.act returns a reward
\* and leaves a life count and a game-over flag of the emulator's choosing.

\* lines 33-75
InitALE ==
    /\ NoReplay
    /\ NoAgent
    /\ NoDQFD
    /\ NoQModel
    /\ NoPGModel
    /\ NoFeed
    /\ NoDQN
    /\ rom_lives \in 0..MaxLives
    /\ ale_lives = rom_lives
    /\ ale_game_over = FALSE
    /\ ale_reward = 0
    /\ loss_of_life_termination \in BOOLEAN
    /\ loss_of_life_reward \in (-MaxLifeReward)..MaxLifeReward
    /\ cur_lives = ale_lives
    /\ life_lost = FALSE
    /\ ale_outcome = << "__init__", 0, FALSE >>

\* lines 83-89
ALE_reset ==
    /\ ale_outcome[1] # ""
    /\ ale_lives' = rom_lives
    /\ ale_game_over' = FALSE
    /\ cur_lives' = ale_lives'
    /\ life_lost' = FALSE
    /\ ale_outcome' = << "reset", 0, FALSE >>
    /\ UNCHANGED << rom_lives, ale_reward, loss_of_life_termination, loss_of_life_reward,
                    beyond_ale >>

\* line 102: rew += self.loss_of_life_reward
LifeReward(rew, reward) == rew + reward

\* lines 121-126: the property is_terminal
is_terminal(termination, lost, game_over) ==
    IF termination /\ lost THEN TRUE ELSE game_over

\* lines 91-106: execute(action), the emulator answering the act with the reward rew
\* and leaving new_lives lives and the flag game_over
execute(rew, new_lives, game_over) ==
    /\ ale_outcome[1] # ""
    /\ ale_reward' = rew
    /\ ale_lives' = new_lives
    /\ ale_game_over' = game_over
    /\ LET counted == loss_of_life_termination \/ loss_of_life_reward # 0
           fewer == counted /\ new_lives < cur_lives
       IN  /\ cur_lives' = IF fewer THEN new_lives ELSE cur_lives
           /\ life_lost' = IF fewer THEN TRUE ELSE life_lost
           /\ ale_outcome' =
                  << "execute",
                     IF fewer THEN LifeReward(rew, loss_of_life_reward) ELSE rew,
                     is_terminal(loss_of_life_termination, life_lost', game_over) >>
    /\ UNCHANGED << rom_lives, loss_of_life_termination, loss_of_life_reward, beyond_ale >>

NextALE ==
    \/ ALE_reset
    \/ \E rew \in 0..MaxAleReward, new_lives \in 0..MaxLives, game_over \in BOOLEAN :
          execute(rew, new_lives, game_over)

SpecALE == InitALE /\ [][NextALE]_vars

\* ==== DQNModel (tensorforce/models/dqn_model.py) ======================================
\* The training and the target network come from the same network_builder (lines
\* 73-76), so they have the same number of internal state inputs. An internal state
\* is << network, n >>: the n-th internal state of that network. What session.run
\* returns has one element for each element of fetches, in the order of fetches.

\* network.internal_state_inits, and network.internal_state_outputs as fetched
InternalStates(network, count) == [n \in 1..count |-> << network, n >>]

\* fetched[from:to] of Python for 0 <= from and 0 <= to
Slice(fetched, from, to) ==
    IF to > Len(fetched) THEN SubSeq(fetched, from + 1, Len(fetched))
    ELSE SubSeq(fetched, from + 1, to)

\* fetched[from:]
SliceFrom(fetched, from) == SubSeq(fetched, from + 1, Len(fetched))

\* lines 36-91; total_states is the parent's counter of the states seen
InitDQN ==
    /\ NoReplay
    /\ NoAgent
    /\ NoDQFD
    /\ NoQModel
    /\ NoPGModel
    /\ NoFeed
    /\ NoALE
    /\ internal_state_inputs \in 0..MaxInternalStates
    /\ training_internal_states = InternalStates("training", internal_state_inputs)
    /\ target_internal_states = InternalStates("target", internal_state_inputs)
    /\ total_states = 0
    /\ dqn_outcome = << "__init__", "ok", None >>

\* lines 101-127: get_action(state, episode), greedy when the random sample is not
\* below epsilon, the session then answering with action
get_action(greedy, action) ==
    /\ dqn_outcome[1] # ""
    /\ total_states < MaxTotalStates
    /\ IF greedy
       THEN LET fetched == << << "dqn_action", action >> >>
                               \o training_internal_states \o target_internal_states
            IN  /\ training_internal_states' =
                       Slice(fetched, 1, Len(training_internal_states))
                /\ target_internal_states' =
                       SliceFrom(fetched, 1 + Len(training_internal_states'))
       ELSE UNCHANGED << training_internal_states, target_internal_states >>
    /\ total_states' = total_states + 1
    /\ dqn_outcome' = << "get_action", "ok", action >>
    /\ UNCHANGED << internal_state_inputs, beyond_dqn >>

\* lines 136-166: update(batch)
DQNModel_update ==
    /\ dqn_outcome[1] # ""
    /\ IF \/ Len(training_internal_states) < internal_state_inputs
          \/ Len(target_internal_states) < internal_state_inputs
       THEN \* lines 157 and 160: self.training_internal_states[n] out of range
            /\ dqn_outcome' = << "update", "IndexError", None >>
            /\ UNCHANGED << training_internal_states, target_internal_states >>
       ELSE LET fetched == << << "optimize_op", None >>, << "training_output", None >> >>
                               \o InternalStates("training", internal_state_inputs)
                               \o InternalStates("target", internal_state_inputs)
            IN  /\ training_internal_states' =
                       Slice(fetched, 2, Len(training_internal_states))
                /\ target_internal_states' =
                       SliceFrom(fetched, 2 + Len(training_internal_states'))
                /\ dqn_outcome' = << "update", "ok", None >>
    /\ UNCHANGED << internal_state_inputs, total_states, beyond_dqn >>

NextDQN ==
    \/ \E greedy \in BOOLEAN, action \in 0..(NumActions - 1) : get_action(greedy, action)
    \/ DQNModel_update

SpecDQN == InitDQN /\ [][NextDQN]_vars

\* ---- properties --------------------------------------------------------------------
\* the indices of the entries that have no priority (the unseen ones)
UnseenIndices ==
    {i \in 0..(Len(observations) - 1) : Priority(At(observations, i)) = None}

\* get_batch has just returned its batch
Returned == pc = "idle" /\ outcome[1] = "get_batch" /\ outcome[2] = "ok"

\* C1: no step makes the store (empty at first) hold more than capacity entries,
\* and an add_observation call on a store that holds capacity entries does not
\* make it longer.
C1_Capacity ==
    [][/\ Len(observations') <= capacity'
       /\ (add_observation /\ Len(observations) = capacity)
              => Len(observations') <= Len(observations)]_vars

\* an add_observation call was made on a full store, which evicted or raised
C1_Witness ==
    /\ outcome[1] = "add_observation"
    /\ outcome[3] \in {"evict", "full"}
    /\ Len(observations) = capacity

\* C2 as claimed: the entries in front of none_priority_index have priority None,
\* those from none_priority_index on have a priority, in ascending order.
C2_NonePrefixSortedSuffix ==
    /\ \A i \in 0..(none_priority_index - 1) : Priority(At(observations, i)) = None
    /\ \A i \in none_priority_index..(Len(observations) - 1) :
           /\ Priority(At(observations, i)) # None
           /\ \A j \in i..(Len(observations) - 1) :
                  Priority(At(observations, i)) <= Priority(At(observations, j))

\* C2 as amended: the entries in front of none_priority_index are exactly those
\* that have a priority; the entries from none_priority_index on have priority None.
C2_Partition ==
    \A i \in 0..(Len(observations) - 1) :
        (i < none_priority_index) <=> (Priority(At(observations, i)) # None)

\* update_batch has left entries with a priority in front of unseen ones
C2_Witness ==
    /\ outcome[1] = "update_batch"
    /\ outcome[2] = "ok"
    /\ 0 < none_priority_index
    /\ none_priority_index < Len(observations)

\* C3: none_priority_index is an index of observations or its length, also after
\* a call that raised.
C3_BoundaryInRange ==
    0 <= none_priority_index /\ none_priority_index <= Len(observations)

\* an update_batch call raised on a store all of whose entries have a priority
C3_Witness ==
    /\ outcome[1] = "update_batch"
    /\ outcome[2] = "IndexError"
    /\ Len(observations) > 0
    /\ none_priority_index = Len(observations)

\* C4: an update_batch call made when no get_batch call was made since
\* construction or since the last update_batch that completed raises
\* TensorForceError, and every update_batch that completes leaves
\* batch_indices None.
C4_OneUpdatePerBatch ==
    [][outcome'[1] = "update_batch"
         => /\ ~sampled_since_update => outcome'[2] = "TensorForceError"
            /\ outcome'[2] = "ok" => batch_indices' = NoBatch]_vars

\* update_batch raised for want of a get_batch after an update_batch that completed
C4_Witness ==
    /\ outcome[1] = "update_batch"
    /\ outcome[2] = "TensorForceError"
    /\ ~sampled_since_update
    /\ none_priority_index > 0

\* C5: an update_batch call on an outstanding batch with a loss vector of another
\* length raises TensorForceError and leaves observations, none_priority_index and
\* batch_indices as they are.  (Stated by contraposition: a step of update_batch
\* on an outstanding batch that does anything else was made with a vector of the
\* batch's length.)
C5_LengthMismatchRaises ==
    [][(/\ outcome'[1] = "update_batch"
        /\ batch_indices # NoBatch
        /\ ~(/\ outcome'[2] = "TensorForceError"
             /\ UNCHANGED << observations, none_priority_index, batch_indices >>))
         => \A loss_per_instance \in LossVectors :
                Len(loss_per_instance) # Len(batch_indices)
                    => ~update_batch(loss_per_instance)]_vars

\* update_batch raised TensorForceError although a batch is outstanding
C5_Witness ==
    /\ outcome[1] = "update_batch"
    /\ outcome[2] = "TensorForceError"
    /\ batch_indices # NoBatch
    /\ Len(batch_indices) > 0

\* the entry add_observation appends in the step
Finalized == << None, Transition(last_observation, calls') >>

\* add_observation finalizes a transition on a full store
AddsToFull ==
    add_observation /\ last_observation # None /\ Len(observations) = capacity

\* C6 as claimed: add_observation on a full store that holds an unseen entry
\* succeeds, removes the oldest unseen entry (the first entry without priority)
\* and appends the new transition, keeping every other entry.
C6_EvictsOldestUnseen ==
    [][(AddsToFull /\ UnseenIndices # {})
         => LET oldest == CHOOSE i \in UnseenIndices : \A j \in UnseenIndices : i <= j
            IN  /\ outcome'[2] = "ok"
                /\ observations' = Append(Pop(observations, oldest), Finalized)]_vars

\* C6 as amended: add_observation on a full store that holds an entry with a
\* priority succeeds, removes the entry at index none_priority_index - 1, which
\* has a priority, appends the new transition as unseen and keeps every other
\* entry in place; on a full store of unseen entries only it raises.
C6_EvictsLastPrioritized ==
    [][AddsToFull
         => IF \E i \in 0..(Len(observations) - 1) : i \notin UnseenIndices
            THEN /\ outcome'[2] = "ok"
                 /\ (none_priority_index - 1) \notin UnseenIndices
                 /\ observations' =
                        Append(Pop(observations, none_priority_index - 1), Finalized)
                 /\ \A i \in UnseenIndices :
                        \E j \in 0..(Len(observations') - 1) :
                            At(observations', j) = At(observations, i)
            ELSE outcome'[2] = "TensorForceError"]_vars

\* add_observation has evicted an entry from a full store that holds unseen
\* entries next to the new one
C6_Witness ==
    /\ outcome = << "add_observation", "ok", "evict" >>
    /\ Cardinality(UnseenIndices) >= 2

\* C7 as claimed: add_observation on a full store without unseen entry raises
\* and leaves the entries as they are.
C7_FullOfSeenRaises ==
    [][(AddsToFull /\ UnseenIndices = {})
         => /\ outcome'[2] = "TensorForceError"
            /\ UNCHANGED observations]_vars

\* C7 as amended: add_observation on a full store in which every entry is unseen
\* raises TensorForceError and leaves the entries, the boundary and the pending
\* observation as they are.
C7_FullOfUnseenRaises ==
    [][(AddsToFull /\ \A i \in 0..(Len(observations) - 1) : i \in UnseenIndices)
         => /\ outcome'[2] = "TensorForceError"
            /\ UNCHANGED << observations, none_priority_index, last_observation >>]_vars

\* add_observation raised on a full store
C7_Witness ==
    /\ outcome = << "add_observation", "TensorForceError", "full" >>
    /\ Len(observations) = capacity
    /\ UnseenIndices = 0..(Len(observations) - 1)

\* C8: update_batch keeps every transition of the batch, with priority
\* loss ** prioritization_weight, and the number of entries.
C8_BatchKept ==
    [][(outcome'[1] = "update_batch" /\ outcome'[2] = "ok")
         => \A loss_per_instance \in [1..Len(batch_indices) -> 0..MaxLoss] :
                update_batch(loss_per_instance)
                    => /\ Len(observations') = Len(observations)
                       /\ \A n \in 1..Len(batch_indices) :
                              \E j \in 0..(Len(observations') - 1) :
                                  At(observations', j) =
                                      << Power(loss_per_instance[n], prioritization_weight),
                                         Observation(At(observations, batch_indices[n])) >>]_vars

\* C9: a get_batch(batch_size) on a store with at least batch_size unseen entries
\* returns indices of unseen entries only, in the order in which the entries
\* were inserted, and all the unseen indices when there are batch_size of them.
C9_UnseenFirst ==
    (Returned /\ batch_size <= Cardinality(UnseenIndices))
        => /\ \A n \in 1..Len(batch_indices) : batch_indices[n] \in UnseenIndices
           /\ \A n, m \in 1..Len(batch_indices) :
                  n < m => Observation(At(observations, batch_indices[n]))[2]
                               < Observation(At(observations, batch_indices[m]))[2]
           /\ batch_size = Cardinality(UnseenIndices)
                  => {batch_indices[n] : n \in 1..Len(batch_indices)} = UnseenIndices

\* get_batch returned two or more unseen entries of a store that also holds
\* entries with a priority
C9_Witness ==
    /\ Returned
    /\ batch_size >= 2
    /\ batch_size <= Cardinality(UnseenIndices)
    /\ none_priority_index > 0

\* C10: when get_batch returns, batch_indices holds batch_size indices of
\* observations, no two of them equal.
C10_DistinctIndices ==
    Returned
        => /\ Len(batch_indices) = batch_size
           /\ \A n \in 1..Len(batch_indices) :
                  0 <= batch_indices[n] /\ batch_indices[n] < Len(observations)
           /\ \A n, m \in 1..Len(batch_indices) :
                  n # m => batch_indices[n] # batch_indices[m]

\* get_batch returned a batch whose rows were drawn from the unseen entries and
\* then by roulette wheel
C10_Witness ==
    /\ Returned
    /\ outcome[3] = "roulette"
    /\ batch_size >= 3
    /\ \E n \in 1..Len(batch_indices) : batch_indices[n] \in UnseenIndices

\* C11: after an update_batch with prioritization_weight 1, of two transitions of
\* the batch that are both stored, the one with the larger loss is at the higher
\* index.
C11_LargerLossLater ==
    [][(outcome'[1] = "update_batch" /\ outcome'[2] = "ok" /\ prioritization_weight = 1)
         => \A loss_per_instance \in [1..Len(batch_indices) -> 0..MaxLoss] :
                update_batch(loss_per_instance)
                    => \A n, m \in 1..Len(batch_indices) :
                           \A i, j \in 0..(Len(observations') - 1) :
                               (/\ loss_per_instance[n] > loss_per_instance[m]
                                /\ Observation(At(observations', i))
                                       = Observation(At(observations, batch_indices[n]))
                                /\ Observation(At(observations', j))
                                       = Observation(At(observations, batch_indices[m])))
                                   => i > j]_vars

\* C12 as claimed: the first add_observation stores nothing, and every later one
\* that succeeds stores one transition, made of the arguments of the call before
\* it and of its own state, and makes its own arguments the pending observation.
C12_PreviousCallPending ==
    [][(add_observation /\ outcome'[2] = "ok")
         => /\ last_observation' = calls'
            /\ calls = 0 => observations' = observations
            /\ calls > 0 =>
                   /\ Len(observations') >= 1
                   /\ At(observations', Len(observations') - 1) = << None, << calls, calls' >> >>]_vars

\* C12 as amended: the pending observation is that of the last add_observation
\* call that did not raise (None before the first); an add_observation that
\* succeeds stores nothing when there is none and otherwise appends one unseen
\* transition, made of the pending observation and of its own state, removing at
\* most one entry; then its own arguments are the pending observation.
C12_PendingFinalized ==
    [][add_observation
         => IF outcome'[2] = "ok"
            THEN /\ last_observation' = calls'
                 /\ last_observation = None => observations' = observations
                 /\ last_observation # None =>
                        /\ Len(observations') >= 1
                        /\ At(observations', Len(observations') - 1)
                               = << None, << last_observation, calls' >> >>
                        /\ \A i \in 0..(Len(observations') - 2) :
                               \E j \in 0..(Len(observations) - 1) :
                                   At(observations', i) = At(observations, j)
                        /\ Len(observations') \in {Len(observations), Len(observations) + 1}
                 /\ (last_observation = None) <=> (calls = 0)
            ELSE UNCHANGED << last_observation, observations >>]_vars

\* a transition was stored whose pending observation is older than the call
\* before, which raised
C12_Witness ==
    /\ outcome[1] = "add_observation"
    /\ outcome[2] = "ok"
    /\ Len(observations) >= 1
    /\ Observation(At(observations, Len(observations) - 1))[2] = calls
    /\ Observation(At(observations, Len(observations) - 1))[1] < calls - 1

\* ---- Agent ----------------------------------------------------------------------------
\* C13: every act passes to model.get_action, and reports in last_observation, the
\* internal state the model returned last: that of the previous get_action of the
\* episode, or the value of model.reset() when act comes first after construction
\* or reset; current_internal changes only at the start of act and in reset.
C13_InternalLag ==
    [][/\ timestep' = timestep + 1
            => /\ model_call'.internal = model_internal
               /\ LastObservation'.internal = model_internal
               /\ agent_outcome[1] \in {"__init__", "reset"}
                      => model_call'.internal = ModelReset
       /\ episode' = episode + 1
            => /\ model_internal' = ModelReset
               /\ current_internal' = ModelReset
       /\ (timestep' = timestep /\ episode' = episode)
            => current_internal' = current_internal]_vars

\* the second act of an episode has passed on what the first one got from the model
C13_Witness ==
    /\ agent_outcome[1] = "act"
    /\ timestep >= 2
    /\ model_call.internal # ModelReset
    /\ LastObservation.internal = model_call.internal
    /\ next_internal # current_internal

\* C16: an act with deterministic = True evaluates no exploration function and
\* returns, component by component, the action model.get_action returned.
C16_DeterministicUnexplored ==
    [][(timestep' = timestep + 1 /\ model_call'.deterministic)
            => /\ evaluated' = {}
               /\ current_action' = model_call'.action
               /\ agent_outcome'[3] = ReturnedAction(unique_action, model_call'.action)]_vars

\* a deterministic act of an agent with exploration on a continuous and on a discrete
\* component
C16_Witness ==
    /\ agent_outcome[1] = "act"
    /\ model_call.deterministic
    /\ exploration \cap continuous_actions # {}
    /\ exploration \ continuous_actions # {}
    /\ current_action = model_call.action

\* ---- DQFDAgent ------------------------------------------------------------------------
\* the places of the calls named call in a trace
Places(trace, call) == {k \in 1..Len(trace) : trace[k][1] = call}

\* C14: observe makes demonstration updates exactly when timestep >= first_update and
\* timestep % update_frequency = 0: then it makes repeat_update demonstration_update
\* calls, each on the batch of size demo_batch_size drawn from the demonstration
\* memory just before it, all of them after the inherited observe; otherwise none.
C14_DemoUpdatesOnSchedule ==
    [][agent_outcome'[1] = "observe"
         => LET trace == observe_trace'
                updates == Places(trace, "model.demonstration_update")
                draws == Places(trace, "demo_memory.get_batch")
            IN  /\ Len(trace) >= 1
                /\ trace[1] = << "memory.add_observation" >>
                /\ IF timestep >= first_update /\ timestep % update_frequency = 0
                   THEN /\ Cardinality(updates) = repeat_update
                        /\ Cardinality(draws) = repeat_update
                        /\ \A k \in updates :
                              /\ k - 1 \in draws
                              /\ trace[k - 1][2] = demo_batch_size
                              /\ trace[k - 1][3] = trace[k][2]
                        /\ \A k, l \in draws : k # l => trace[k][3] # trace[l][3]
                        /\ \A k \in updates \cup draws :
                              \A l \in 1..Len(trace) \ (updates \cup draws) : l < k
                   ELSE updates \cup draws = {}]_vars

\* an observe that was due at a timestep above 0 and repeated the update
C14_Witness ==
    /\ agent_outcome[1] = "observe"
    /\ timestep >= 1
    /\ Cardinality(Places(observe_trace, "model.demonstration_update")) >= 2

\* floor(num / den) for den # 0
Floor(num, den) == IF den > 0 THEN num \div den ELSE (-num) \div (-den)

C17_TargetMovesToTraining ==
    [][q_outcome' = "update_target"
         => /\ \A n \in 1..NumVariables :
                  variables'[<< "target", n >>] =
                      variables[<< "target", n >>]
                      - update_target_weight
                        * (variables[<< "target", n >>] - variables[<< "training", n >>])
            /\ update_target_weight = 1
                  => \A n \in 1..NumVariables :
                         variables'[<< "target", n >>] = variables'[<< "training", n >>]]_vars

\* the Huber loss of bound c for one TD error, doubled
Huber(d, c) == IF Abs(d) < c THEN d * d ELSE c * (2 * Abs(d) - c)

\* C18: with clip_loss > 0 the loss of a row is the Huber loss of bound clip_loss of
\* its TD error, 0.5 * delta^2 where |delta| < clip_loss and linear beyond, whatever
\* the other configuration keys are.
C18_HuberBoundIsClipLoss ==
    (q_outcome = "update" /\ clip_loss > 0)
        => \A k \in 1..Len(delta) : huber_loss[k] = Huber(delta[k], clip_loss)

\* ---- PolicyGradientModel --------------------------------------------------------------
\* C19: with a baseline and gae_rewards, the TD residual of every row t, terminal
\* rows and the last row included, is r_t + discount * V(s_t+1) - V(s_t), the
\* term discount * V(s_t+1) being dropped at a terminal row (and where the batch has
\* no next row).
C19_ResidualSubtractsValue ==
    (pg_outcome = "update" /\ baseline /\ gae_rewards)
        => \A t \in 1..Len(batch_rewards) :
               td_residuals[t] =
                   batch_rewards[t]
                   + (IF t < Len(batch_rewards) /\ ~batch_terminals[t]
                      THEN discount * state_values[t + 1] ELSE 0)
                   - state_values[t]

\* C20: with a baseline, gae_rewards and gae_lambda = 1, the rewards returned are, row
\* by row, the discounted return minus the value the baseline predicts, as without
\* gae_rewards.
C20_LambdaOneIsReturnMinusBaseline ==
    (/\ pg_outcome = "update"
     /\ baseline /\ gae_rewards /\ gae_lambda = 1 /\ ~normalize_rewards)
        => /\ Len(estimated_rewards) = Len(batch_rewards)
           /\ \A t \in 1..Len(batch_rewards) :
                  estimated_rewards[t] = discounted_rewards[t] - state_values[t]

\* C21: in update every baseline.predict comes before any baseline.update and is made
\* by the baseline as it was before this batch; every baseline.update gets the
\* discounted returns, never normalized, not the rewards estimated; and the parent's
\* update comes after all of them.
C21_PredictBeforeRefit ==
    [][pg_outcome' = "update"
         => LET trace == pg_trace'
                predicts == Places(trace, "baseline.predict")
                updates == Places(trace, "baseline.update")
                parent == Places(trace, "Model.update")
            IN  /\ \A p \in predicts : \A u \in updates : p < u
                /\ \A p \in predicts : trace[p][3] = fitted
                /\ \A u \in updates :
                       trace[u][3] = CumulativeDiscount(batch_rewards', batch_terminals',
                                                        discount)
                /\ Cardinality(parent) = 1
                /\ \A u \in updates \cup predicts : \A q \in parent : u < q
                /\ Cardinality(predicts) = (IF baseline THEN NumStates ELSE 0)
                /\ Cardinality(updates) = Cardinality(predicts)]_vars

\* an update of a model with baselines fit before, whose rewards to learn from are
\* normalized and differ from the returns
C21_Witness ==
    /\ pg_outcome = "update"
    /\ baseline
    /\ normalize_rewards
    /\ fitted >= 2
    /\ estimated_rewards # discounted_rewards
    /\ Cardinality(Places(pg_trace, "baseline.update")) >= 2

\* ---- PrioritizedReplay, continued --------------------------------------------------------
\* C22: get_batch(batch_size) with batch_size <= len(observations) comes to an end
\* under fair draws: while its loop runs, some draw adds a row or raises, so that a
\* draw that is rejected is never the only one there is.
C22_SomeDrawAccepted ==
    (pc = "get_batch" /\ batch_size <= Len(observations))
        => ENABLED << get_batch_unseen \/ get_batch_uniform \/ get_batch_roulette >>_vars

\* C23: the entries that have a priority are in reverse priority order: for all
\* indices i < j < none_priority_index the priority at i is at least that at j.
C23_ReversePriorityOrder ==
    \A i, j \in 0..(none_priority_index - 1) :
        (i < j /\ j < Len(observations))
            => Priority(At(observations, i)) >= Priority(At(observations, j))

\* C24: an entry has priority None if and only if its index is at least
\* none_priority_index, and the entries with priority None are in the order in
\* which they were inserted (a transition carries the number of the call that
\* inserted it).
C24_UnseenInInsertionOrder ==
    /\ \A i \in 0..(Len(observations) - 1) :
           (Priority(At(observations, i)) = None) <=> (i >= none_priority_index)
    /\ \A i, j \in UnseenIndices :
           i < j => Observation(At(observations, i))[2] < Observation(At(observations, j))[2]

\* an entry inserted after an update_batch, behind entries with a priority and
\* behind an older unseen entry
C24_Witness ==
    /\ pc = "idle"
    /\ none_priority_index > 0
    /\ Cardinality(UnseenIndices) >= 2
    /\ outcome[1] = "add_observation"
    /\ outcome[3] = "append"

\* C25: each row of a batch get_batch returns holds the observation stored at the
\* index the row has in batch_indices, whichever branch drew the index.
C25_RowsAreTheEntriesDrawn ==
    Returned
        => /\ Len(rows) = Len(batch_indices)
           /\ \A n \in 1..Len(batch_indices) :
                  rows[n] = Observation(At(observations, batch_indices[n]))

\* C26: an add_observation made while a batch is outstanding leaves at every index
\* of the batch the transition that was there, also when it evicts an entry of a
\* full store.
C26_BatchIndicesStable ==
    [][(add_observation /\ batch_indices # NoBatch)
         => \A n \in 1..Len(batch_indices) :
                /\ batch_indices[n] < Len(observations')
                /\ Observation(At(observations', batch_indices[n]))
                       = Observation(At(observations, batch_indices[n]))]_vars

\* C27: update_feed_dict on a batch of N rows without 'next_states' feeds N - 1
\* transitions, row i with the state, action, reward, terminal and internals of row i
\* and the state of row i + 1 as next state, so that those of row N are dropped; on a
\* batch with 'next_states' it feeds all N rows with the next states given.
C27_FeedsConsecutiveRows ==
    feed_outcome = "update_feed_dict"
        => LET N == Len(feed_batch.states)
               fed == IF "next_states" \in DOMAIN feed_batch THEN N ELSE N - 1
           IN  /\ \A key \in DOMAIN feed_dict : Len(feed_dict[key]) = fed
               /\ \A i \in 1..fed :
                      /\ feed_dict.state[i] = feed_batch.states[i]
                      /\ feed_dict.action[i] = feed_batch.actions[i]
                      /\ feed_dict.reward[i] = feed_batch.rewards[i]
                      /\ feed_dict.terminal[i] = feed_batch.terminals[i]
                      /\ feed_dict.internal[i] = feed_batch.internals[i]
                      /\ feed_dict.next_state[i] =
                             IF "next_states" \in DOMAIN feed_batch
                             THEN feed_batch.next_states[i]
                             ELSE feed_batch.states[i + 1]

\* a batch of two rows without 'next_states' whose rows differ in every column: one
\* transition is fed
C27_Witness ==
    /\ feed_outcome = "update_feed_dict"
    /\ "next_states" \notin DOMAIN feed_batch
    /\ Len(feed_batch.states) = 2
    /\ Len(feed_dict.reward) = 1
    /\ \A key \in DOMAIN feed_batch : feed_batch[key][1] # feed_batch[key][2]

\* a batch with 'next_states': both rows are fed
C27_WitnessNextStates ==
    /\ feed_outcome = "update_feed_dict"
    /\ "next_states" \in DOMAIN feed_batch
    /\ Len(feed_dict.reward) = 2

\* C28: a reset adds exactly 1 to episode, sets current_internal and next_internal to
\* the value of model.reset(), leaves every preprocessor as one that has processed
\* nothing, and leaves timestep as it is; timestep is 0 after construction, an act adds
\* exactly 1 to it and no other call changes it, so that it counts the act calls of all
\* episodes.
C28_ResetKeepsTimestep ==
    [][/\ agent_outcome[1] = "__init__" => timestep = 0
       /\ agent_outcome'[1] = "reset"
              => /\ episode' = episode + 1
                 /\ current_internal' = ModelReset
                 /\ next_internal' = ModelReset
                 /\ processed' = 0
                 /\ timestep' = timestep
       /\ timestep' = IF agent_outcome'[1] = "act" THEN timestep + 1 ELSE timestep]_vars

\* a reset after an act that went through the preprocessor: the episode is counted,
\* the preprocessor has processed nothing, timestep is still 1
C28_Witness ==
    /\ agent_outcome[1] = "reset"
    /\ preprocessing
    /\ episode = 1
    /\ timestep = 1
    /\ processed = 0
    /\ current_internal = ModelReset
    /\ model_call # << >>

\* C29: with loss_of_life_termination set or loss_of_life_reward non-zero, an execute
\* after which the emulator has fewer lives than after the call before returns the
\* emulator's reward plus loss_of_life_reward, and terminal = TRUE when
\* loss_of_life_termination is set, whatever the life counts were before.
C29_LifeLossCounted ==
    [][(/\ ale_outcome'[1] = "execute"
        /\ loss_of_life_termination \/ loss_of_life_reward # 0
        /\ ale_lives' < ale_lives)
           => /\ ale_outcome'[2] = ale_reward' + loss_of_life_reward
              /\ loss_of_life_termination => ale_outcome'[3]]_vars

\* C30: after any get_action and update calls, training_internal_states holds one
\* internal state of the training network for each internal state input of that
\* network, and target_internal_states one of the target network for each of its
\* inputs, so that the next feed of internal states finds an element at every index.
C30_InternalStateLists ==
    /\ Len(training_internal_states) = internal_state_inputs
    /\ Len(target_internal_states) = internal_state_inputs
    /\ \A n \in 1..Len(training_internal_states) :
           training_internal_states[n][1] = "training"
    /\ \A n \in 1..Len(target_internal_states) :
           target_internal_states[n][1] = "target"
    /\ dqn_outcome[2] # "IndexError"
====
